---- MODULE Spec2Model ----
(***************************************************************************)
(* Model of the xlog logging library (dulo-tech/xlog).                     *)
(*                                                                         *)
(* The repository holds several revisions of the same types.  The model    *)
(* keeps them apart with the variable impl, which names the revision the   *)
(* object under analysis is an instance of:                                *)
(*   "DefaultLogger"    src/unnamed/part_004 (DefaultLogger)               *)
(*   "Logger"           src/logger.go        (Logger)                      *)
(*   "LoggerV1"         src/unnamed/part_005 (Logger, per-logger masks)    *)
(*   "DefaultContainer" src/container.go     (DefaultContainer)            *)
(*   "DefaultFormatter" src/formatter.go     (DefaultFormatter)            *)
(*   "MapFormatter"     src/map.go           (DefaultFormatter with        *)
(*                                            placeholder suppliers)       *)
(*   "global"           src/global.go        (the package-level logger)    *)
(*   "levels"           src/loggable.go      (the level order functions)   *)
(*                                                                         *)
(* Strings are sequences of tokens; a placeholder such as {name} is one    *)
(* token.  Sinks are pairs <<kind, id>>.                                   *)
(***************************************************************************)
EXTENDS Integers, Sequences, FiniteSets, TLC

VARIABLES
    impl,               \* revision of the object under analysis
    l,                  \* the logger: [Enabled, Formatter, Loggers, name, pointers, closed]
    m,                  \* the container: [loggers, pointers, closed]
    FatalOn,            \* levels that make Log exit the process
    PanicOn,            \* levels that make Log panic
    PanicOnFileErrors,  \* whether a failed open panics
    Aliases,            \* alias name -> sink
    nfiles,             \* number of file handles opened so far
    closeCount,         \* sink -> number of Close() calls it received
    regs,               \* history: <<sink, threshold>> registered since creation / Clear
    last,               \* record of the last operation: [op, level, out, trace, ret]
    fm,                 \* the formatter: [type, messageFormat, dateFormat, funcs]
    globalInstance,     \* identity of the global logger l, 0 for nil
    globalAppended,     \* whether a global append has cleared the default sink
    globalLoggers,      \* name -> identity of the logger GetLogger returns
    ninst,              \* number of loggers created by New so far
    calls,              \* GetLogger calls in progress: caller -> [pc, name, ok, new, ret]
    DefaultDateFormat   \* the date format used when a template names none

vars == <<impl, l, m, FatalOn, PanicOn, PanicOnFileErrors, Aliases,
          nfiles, closeCount, regs, last,
          fm, globalInstance, globalAppended, globalLoggers, ninst,
          calls, DefaultDateFormat>>

----------------------------------------------------------------------------
(* Bounds *)

MaxAppend == 2      \* registrations per logger / container (Spec)
MaxFiles == 2       \* file handles opened in one behaviour (Spec)
MaxRouteAppend == 2 \* registrations per logger / container (SpecRoute)
MaxEscAppend == 2   \* registrations per logger (SpecEsc)
MaxMaskAppend == 1  \* registrations per container (SpecMask)
MaxGlobalAppend == 2 \* registrations per global logger (SpecGlobal)
MaxInst == 3        \* loggers created by New in one behaviour (SpecGlobal)

----------------------------------------------------------------------------
(* Levels *)

DebugLevel == 1
InfoLevel == 2
NoticeLevel == 4
WarningLevel == 8
ErrorLevel == 16
CriticalLevel == 32
AlertLevel == 64
EmergencyLevel == 128

levelOrder ==
    <<DebugLevel, InfoLevel, NoticeLevel, WarningLevel,
      ErrorLevel, CriticalLevel, AlertLevel, EmergencyLevel>>

CanonicalLevels == {levelOrder[i] : i \in 1..Len(levelOrder)}

Levels ==
    [lev \in CanonicalLevels |->
        CASE lev = DebugLevel -> "DEBUG"
          [] lev = InfoLevel -> "INFO"
          [] lev = NoticeLevel -> "NOTICE"
          [] lev = WarningLevel -> "WARNING"
          [] lev = ErrorLevel -> "ERROR"
          [] lev = CriticalLevel -> "CRITICAL"
          [] lev = AlertLevel -> "ALERT"
          [] lev = EmergencyLevel -> "EMERGENCY"]

\* Go's a & b on the non-negative Level values used here.
RECURSIVE BitAnd(_, _)
BitAnd(a, b) ==
    IF a = 0 \/ b = 0 THEN 0
    ELSE ((a % 2) * (b % 2)) + 2 * BitAnd(a \div 2, b \div 2)

\* How a function call ends: with a value, or with a panic.
Return(val) == [out |-> "return", val |-> val]
Panic(msg) == [out |-> "panic", msg |-> msg]

\* The indexes of levelOrder (0-based, as in the source) that hold level.
IndexesOf(level) ==
    {idx \in 0..(Len(levelOrder) - 1) : levelOrder[idx + 1] = level}

\* Mutant: the -1 the comment in the source promises, instead of the panic.
searchForLevel_MinusOne(level) ==
    IF IndexesOf(level) = {} THEN Return(-1)
    ELSE Return(CHOOSE idx \in IndexesOf(level) :
                    \A other \in IndexesOf(level) : idx <= other)

\* searchForLevel: the first index that holds level; falling out of the
\* loop panics.
searchForLevel(level) ==
    IF IndexesOf(level) = {} THEN Panic("Invalid level.")
    ELSE Return(CHOOSE idx \in IndexesOf(level) :
                    \A other \in IndexesOf(level) : idx <= other)

\* Mutant: greater-or-equal.
IsGreaterLevel_OrEqual(is_greater_than, that) ==
    LET a == searchForLevel(is_greater_than) IN
    IF a.out = "panic" THEN a
    ELSE LET b == searchForLevel(that) IN
         IF b.out = "panic" THEN b ELSE Return(a.val >= b.val)

\* IsGreaterLevel: the operands are evaluated left to right.
IsGreaterLevel(is_greater_than, that) ==
    LET a == searchForLevel(is_greater_than) IN
    IF a.out = "panic" THEN a
    ELSE LET b == searchForLevel(that) IN
         IF b.out = "panic" THEN b ELSE Return(a.val > b.val)

IsLesserLevel(is_less_than, that) ==
    LET a == searchForLevel(is_less_than) IN
    IF a.out = "panic" THEN a
    ELSE LET b == searchForLevel(that) IN
         IF b.out = "panic" THEN b ELSE Return(a.val < b.val)

----------------------------------------------------------------------------
(* Sinks *)

Writers == {<<"writer", 1>>, <<"writer", 2>>}
Stdout == <<"std", 1>>
Stdin == <<"std", 0>>
Stderr == <<"std", 2>>
FileHandles == {<<"file", i>> : i \in 1..MaxFiles}
Sinks == Writers \cup {Stdout, Stdin, Stderr} \cup FileHandles

DefaultAliases ==
    [a \in {"stdout", "stdin", "stderr"} |->
        CASE a = "stdout" -> Stdout
          [] a = "stdin" -> Stdin
          [] a = "stderr" -> Stderr]

\* A nil interface / nil map value.
Nil == [nil |-> TRUE]

----------------------------------------------------------------------------
(* Formatter (src/formatter.go) *)

\* The value DefaultDateFormat is declared with.
InitialDateFormat == "2006-01-02 15:04:05.000"

\* DefaultMessageFormat after SanitizeForDate: the inline date format is
\* extracted and the template holds the bare {date}.
DefaultMessageFormat ==
    <<"{date|" , "2006-01-02 15:04:05.000", "}", " ", "{name}", ".", "{level}", " ",
      "{message}">>

\* time.Now().Format(dateFormat) at the (fixed) clock value of the model.
TimeFormat(dateFormat) ==
    IF dateFormat = "2006-01-02 15:04:05.000" THEN "2014-11-15 09:40:28.693"
    ELSE IF dateFormat = "2006-01-02" THEN "2014-11-15"
    ELSE dateFormat

\* strings.Replace(s, old, new, -1) where old is one token.
RECURSIVE Replace(_, _, _)
Replace(s, old, new) ==
    IF s = <<>> THEN <<>>
    ELSE (IF Head(s) = old THEN new ELSE <<Head(s)>>) \o Replace(Tail(s), old, new)

\* regexp {date\|([^}]+)}: the index of the first inline date token, or 0.
RECURSIVE FindInlineDate(_, _)
FindInlineDate(s, i) ==
    IF i + 2 > Len(s) THEN 0
    ELSE IF s[i] = "{date|" /\ s[i + 1] # "}" /\ s[i + 2] = "}" THEN i
    ELSE FindInlineDate(s, i + 1)

\* regex.ReplaceAllString(messageFormat, "{date}")
RECURSIVE ReplaceAllInlineDate(_)
ReplaceAllInlineDate(s) ==
    IF s = <<>> THEN <<>>
    ELSE IF Len(s) >= 3 /\ s[1] = "{date|" /\ s[2] # "}" /\ s[3] = "}"
         THEN <<"{date}">> \o ReplaceAllInlineDate(SubSeq(s, 4, Len(s)))
    ELSE <<Head(s)>> \o ReplaceAllInlineDate(Tail(s))

SanitizeForDate(messageFormat) ==
    LET i == FindInlineDate(messageFormat, 1) IN
    IF i # 0
    THEN [messageFormat |-> ReplaceAllInlineDate(messageFormat),
          dateFormat |-> messageFormat[i + 1]]
    ELSE [messageFormat |-> messageFormat, dateFormat |-> DefaultDateFormat]

NewDefaultFormatter(messageFormat) ==
    LET s == SanitizeForDate(messageFormat) IN
    [type |-> "DefaultFormatter",
     messageFormat |-> s.messageFormat,
     dateFormat |-> s.dateFormat]

\* The README's NullFormatter: renders every message as the empty string.
NullFormatter == [type |-> "NullFormatter", messageFormat |-> <<>>, dateFormat |-> ""]

Placeholders == {"{date}", "{level}", "{message}", "{name}"}

\* The orders in which Go may range over the placeholders map.
PlaceholderOrders ==
    {o \in [1..4 -> Placeholders] : \A i, j \in 1..4 : i # j => o[i] # o[j]}

\* Levels[level]: the zero value "" for a key that is not in the map.
LevelString(level) ==
    IF level \in DOMAIN Levels THEN <<Levels[level]>> ELSE <<>>

RECURSIVE ReplaceInOrder(_, _, _, _)
ReplaceInOrder(formatted, values, order, i) ==
    IF i > Len(order) THEN formatted
    ELSE ReplaceInOrder(Replace(formatted, order[i], values[order[i]]),
                        values, order, i + 1)

\* DefaultFormatter.Format; order is the map iteration order of this call.
Format(f, name, level, v, order) ==
    IF f.type = "NullFormatter" THEN <<>>
    ELSE
        LET placeholders ==
                [p \in Placeholders |->
                    CASE p = "{date}" -> <<TimeFormat(f.dateFormat)>>
                      [] p = "{level}" -> LevelString(level)
                      [] p = "{message}" -> v
                      [] p = "{name}" -> name]
        IN ReplaceInOrder(f.messageFormat, placeholders, order, 1)

\* Mutant: a template without an inline date keeps the date format in use.
SetMessageFormat_KeepDate(f, messageFormat) ==
    LET i == FindInlineDate(messageFormat, 1) IN
    IF i # 0
    THEN [f EXCEPT !.messageFormat = ReplaceAllInlineDate(messageFormat),
                   !.dateFormat = messageFormat[i + 1]]
    ELSE [f EXCEPT !.messageFormat = messageFormat]

\* SetMessageFormat (src/formatter.go)
SetMessageFormat(f, messageFormat) ==
    LET s == SanitizeForDate(messageFormat) IN
    [f EXCEPT !.messageFormat = s.messageFormat, !.dateFormat = s.dateFormat]

----------------------------------------------------------------------------
(* Formatter with placeholder suppliers (src/map.go) *)

\* Mutant: only the first inline date token is rewritten.
SanitizeForDateMap_First(messageFormat, dateFormat) ==
    LET i == FindInlineDate(messageFormat, 1) IN
    IF i # 0
    THEN [messageFormat |-> SubSeq(messageFormat, 1, i - 1) \o <<"{date}">>
                            \o SubSeq(messageFormat, i + 3, Len(messageFormat)),
          dateFormat |-> messageFormat[i + 1]]
    ELSE [messageFormat |-> messageFormat, dateFormat |-> dateFormat]

\* SanitizeForDate(messageFormat, dateFormat) of src/map.go
SanitizeForDateMap(messageFormat, dateFormat) ==
    LET i == FindInlineDate(messageFormat, 1) IN
    IF i # 0
    THEN [messageFormat |-> ReplaceAllInlineDate(messageFormat),
          dateFormat |-> messageFormat[i + 1]]
    ELSE [messageFormat |-> messageFormat, dateFormat |-> dateFormat]

\* NewDefaultFormatter(messageFormat, dateFormat) of src/map.go; funcs maps
\* a key to its supplier, a function from the key to text.
NewMapFormatter(messageFormat, dateFormat) ==
    LET s == SanitizeForDateMap(messageFormat, dateFormat) IN
    [type |-> "DefaultFormatter",
     messageFormat |-> s.messageFormat,
     dateFormat |-> s.dateFormat,
     funcs |-> <<>>]

\* Mutant: the date format falls back to the default.
SetFormat_Default(f, format) ==
    LET s == SanitizeForDateMap(format, DefaultDateFormat) IN
    [f EXCEPT !.messageFormat = s.messageFormat, !.dateFormat = s.dateFormat]

SetFormat(f, format) ==
    LET s == SanitizeForDateMap(format, f.dateFormat) IN
    [f EXCEPT !.messageFormat = s.messageFormat, !.dateFormat = s.dateFormat]

\* f.funcs[key] = fn
PlaceholderFunc(f, key, fn) ==
    [f EXCEPT !.funcs = [k \in DOMAIN f.funcs \cup {key} |->
                            IF k = key THEN fn ELSE f.funcs[k]]]

\* "{" + key + "}"
KeyToken(key) ==
    CASE key = "host" -> "{host}"
      [] key = "env" -> "{env}"
      [] key = "name" -> "{name}"
      [] OTHER -> "{?}"

\* for key, fn := range f.funcs { strings.Replace(.., "{"+key+"}", fn(key), -1) }
RECURSIVE ReplaceFuncs(_, _, _, _)
ReplaceFuncs(formatted, funcs, forder, i) ==
    IF i > Len(forder) THEN formatted
    ELSE ReplaceFuncs(Replace(formatted, KeyToken(forder[i]),
                              funcs[forder[i]][forder[i]]),
                      funcs, forder, i + 1)

\* DefaultFormatter.Format of src/map.go; order and forder are the
\* iteration orders of the two maps in this call.
MapFormat(f, name, level, v, order, forder) ==
    ReplaceFuncs(Format(f, name, level, v, order), f.funcs, forder, 1)

----------------------------------------------------------------------------
(* Level buckets (src/map.go, src/unnamed/part_002, src/container.go) *)

\* Mutant: the map is made anew, the buckets are not.
Clear_NoBuckets == <<>>

\* Clear / NewDefaultLoggerMap: one empty bucket per canonical level.
Clear == [lev \in DOMAIN Levels |-> <<>>]

\* Mutant: the threshold level itself is left out.
MapAppend_Strict(loggers, logger, level) ==
    [lev \in DOMAIN loggers |->
        IF lev > level THEN Append(loggers[lev], logger) ELSE loggers[lev]]

\* DefaultLoggerMap.Append / DefaultLoggerContainer.Append
\* Mutant: the new logger is put in front of the bucket.
MapAppend_Front(loggers, logger, level) ==
    [lev \in DOMAIN loggers |->
        IF lev >= level THEN <<logger>> \o loggers[lev] ELSE loggers[lev]]

MapAppend(loggers, logger, level) ==
    [lev \in DOMAIN loggers |->
        IF lev >= level THEN Append(loggers[lev], logger) ELSE loggers[lev]]

\* Mutant: the threshold is compared as a number only.
ContainerAppend_NoMask(loggers, logger, level) ==
    [lev \in DOMAIN loggers |->
        IF lev >= level THEN Append(loggers[lev], logger) ELSE loggers[lev]]

\* DefaultContainer.Append (src/container.go)
ContainerAppend(loggers, logger, level) ==
    [lev \in DOMAIN loggers |->
        IF BitAnd(lev, level) > 0 \/ lev >= level
        THEN Append(loggers[lev], logger) ELSE loggers[lev]]

\* Mutant: a level without a bucket is served from the highest bucket.
FindByLevel_Highest(loggers, level) ==
    IF level \in DOMAIN loggers THEN loggers[level] ELSE loggers[EmergencyLevel]

\* FindByLevel / Get: a map read, nil (an empty slice) for a missing key.
FindByLevel(loggers, level) ==
    IF level \in DOMAIN loggers THEN loggers[level] ELSE <<>>

----------------------------------------------------------------------------
(* Events and the world an operation runs in *)

NoSink == <<"none", 0>>
NilDeref == <<"invalid memory address or nil pointer dereference">>
OpenError == <<"open: no such file or directory">>

Ev(e, sink, msg) == [e |-> e, sink |-> sink, msg |-> msg]

\* The state an operation of the logger reads and writes, with the events
\* it has performed so far and how it ended.
World ==
    [l |-> l, nfiles |-> nfiles, closeCount |-> closeCount, regs |-> regs,
     out |-> "return", trace |-> <<>>, ret |-> NoSink]

Emit(w, e) == [w EXCEPT !.trace = Append(@, e)]

\* A runtime panic: the operation stops here.
Fault(w, msg) == [Emit(w, Ev("panic", NoSink, msg)) EXCEPT !.out = "panic"]

\* os.Exit(1)
Exit(w) == [Emit(w, Ev("exit", NoSink, <<>>)) EXCEPT !.out = "exit"]

\* log.Logger.Print: the line ends with exactly one newline.
Line(message) ==
    IF message # <<>> /\ message[Len(message)] = "\n" THEN message
    ELSE Append(message, "\n")

----------------------------------------------------------------------------
(* The logger (src/unnamed/part_004, src/logger.go, src/unnamed/part_005) *)

NewLogger(name) ==
    [Enabled |-> TRUE,
     Formatter |-> NewDefaultFormatter(DefaultMessageFormat),
     Loggers |-> Clear,
     name |-> name,
     pointers |-> <<>>,
     closed |-> FALSE]

\* Mutant: Enabled is not consulted.
Writable_IgnoreEnabled(lg) == ~lg.closed

Writable(lg) == lg.Enabled /\ ~lg.closed

Closed(lg) == lg.closed

\* l.Loggers.Append(newLogger(w), level): a method call on the interface
\* value Loggers, which is nil after Close.
LoggersAppend(w, sink, level) ==
    IF w.l.Loggers = Nil THEN Fault(w, NilDeref)
    ELSE [Emit(w, Ev("register", sink, <<>>)) EXCEPT
            !.l.Loggers = MapAppend(@, sink, level),
            !.regs = Append(@, <<sink, level>>)]

\* open: ok tells whether os.OpenFile succeeds.
open(w, name, ok) ==
    IF ok
    THEN LET h == <<"file", w.nfiles + 1>> IN
         [Emit(w, Ev("open", h, <<name>>)) EXCEPT !.nfiles = @ + 1, !.ret = h]
    ELSE LET e == Emit(w, Ev("openfail", NoSink, <<name>>)) IN
         IF PanicOnFileErrors THEN Fault(e, OpenError)
         ELSE [e EXCEPT !.ret = NoSink]

\* Mutant: the handle of an alias is recorded as a file to close.
DoAppend_OwnAlias(w, file, level, openable) ==
    IF file \in DOMAIN Aliases
    THEN LET a == LoggersAppend(w, Aliases[file], level) IN
         IF a.out # "return" THEN a
         ELSE [a EXCEPT !.l.pointers = Append(@, Aliases[file])]
    ELSE LET o == open(w, file, file \in openable) IN
         IF o.out # "return" THEN o
         ELSE IF o.ret # NoSink
         THEN LET a == LoggersAppend(o, o.ret, level) IN
              IF a.out # "return" THEN a
              ELSE [a EXCEPT !.l.pointers = Append(@, o.ret)]
         ELSE o

\* Mutant: the result of open is used without the nil check.
DoAppend_NoNilCheck(w, file, level, openable) ==
    IF file \in DOMAIN Aliases
    THEN LoggersAppend(w, Aliases[file], level)
    ELSE LET o == open(w, file, file \in openable) IN
         IF o.out # "return" THEN o
         ELSE LET a == LoggersAppend(o, o.ret, level) IN
              IF a.out # "return" THEN a
              ELSE [a EXCEPT !.l.pointers = Append(@, o.ret)]

\* Append(file, level); openable is the set of paths os.OpenFile can open.
DoAppend(w, file, level, openable) ==
    IF file \in DOMAIN Aliases
    THEN LoggersAppend(w, Aliases[file], level)
    ELSE LET o == open(w, file, file \in openable) IN
         IF o.out # "return" THEN o
         ELSE IF o.ret # NoSink
         THEN LET a == LoggersAppend(o, o.ret, level) IN
              IF a.out # "return" THEN a
              ELSE [a EXCEPT !.l.pointers = Append(@, o.ret)]
         ELSE o

RECURSIVE DoMultiAppend(_, _, _, _)
DoMultiAppend(w, files, level, openable) ==
    IF files = <<>> \/ w.out # "return" THEN w
    ELSE DoMultiAppend(DoAppend(w, Head(files), level, openable),
                       Tail(files), level, openable)

DoAppendWriter(w, writer, level) == LoggersAppend(w, writer, level)

RECURSIVE DoMultiAppendWriters(_, _, _)
DoMultiAppendWriters(w, writers, level) ==
    IF writers = <<>> \/ w.out # "return" THEN w
    ELSE DoMultiAppendWriters(DoAppendWriter(w, Head(writers), level),
                              Tail(writers), level)

\* Mutant: the files are forgotten together with the sinks.
DoClearAppended_DropFiles(w) ==
    IF w.l.Loggers = Nil THEN Fault(w, NilDeref)
    ELSE [w EXCEPT !.l.Loggers = Clear, !.l.pointers = <<>>, !.regs = <<>>]

\* ClearAppended: l.Loggers.Clear()
DoClearAppended(w) ==
    IF w.l.Loggers = Nil THEN Fault(w, NilDeref)
    ELSE [w EXCEPT !.l.Loggers = Clear, !.regs = <<>>]

RECURSIVE ClosePointers(_, _)
ClosePointers(w, pointers) ==
    IF pointers = <<>> THEN w
    ELSE ClosePointers(
            [Emit(w, Ev("close", Head(pointers), <<>>)) EXCEPT
                !.closeCount[Head(pointers)] = @ + 1],
            Tail(pointers))

\* Mutant: closed is never set, so every Close closes the files again.
DoClose_NoFlag(w) ==
    LET c == ClosePointers(w, w.l.pointers) IN
    [c EXCEPT !.l.Enabled = FALSE, !.l.Loggers = Nil]

\* Close: only the DefaultLogger of part_004 (the revision the global
\* logger is an instance of) sets closed.
DoClose(w) ==
    IF ~w.l.closed
    THEN LET c == ClosePointers(w, w.l.pointers) IN
         [c EXCEPT !.l.Enabled = FALSE,
                   !.l.Loggers = Nil,
                   !.l.pointers = <<>>,
                   !.l.closed = (impl \in {"DefaultLogger", "global"})]
    ELSE w

RECURSIVE PrintAll(_, _, _)
PrintAll(w, loggers, message) ==
    IF loggers = <<>> THEN w
    ELSE PrintAll(Emit(w, Ev("write", Head(loggers), Line(message))),
                  Tail(loggers), message)

\* for _, logger := range l.Loggers.FindByLevel(level) { logger.Print(message) }
Deliver(w, level, message) ==
    IF w.l.Loggers = Nil THEN Fault(w, NilDeref)
    ELSE PrintAll(w, FindByLevel(w.l.Loggers, level), message)

\* Mutant: the panic mask is tested first.
Escalate_PanicFirst(w, level, message) ==
    IF BitAnd(PanicOn, level) > 0 THEN Fault(w, message)
    ELSE IF BitAnd(FatalOn, level) > 0 THEN Exit(w)
    ELSE w

Escalate(w, level, message) ==
    IF BitAnd(FatalOn, level) > 0 THEN Exit(w)
    ELSE IF BitAnd(PanicOn, level) > 0 THEN Fault(w, message)
    ELSE w

\* Mutant: a logger that has written switches itself off.
DoLog_Disable(w, level, v, order) ==
    IF Writable(w.l)
    THEN LET message == Format(w.l.Formatter, w.l.name, level, v, order)
             d == IF message # <<>> \/ impl = "LoggerV1"
                  THEN Deliver(w, level, message) ELSE w
         IN IF d.out # "return" THEN d
            ELSE [Escalate(d, level, message) EXCEPT !.l.Enabled = FALSE]
    ELSE w

\* Log; part_005 writes the message even when it is empty.
DoLog(w, level, v, order) ==
    IF Writable(w.l)
    THEN LET message == Format(w.l.Formatter, w.l.name, level, v, order)
             d == IF message # <<>> \/ impl = "LoggerV1"
                  THEN Deliver(w, level, message) ELSE w
         IN IF d.out # "return" THEN d ELSE Escalate(d, level, message)
    ELSE w

----------------------------------------------------------------------------
(* The container (src/container.go) *)

NewDefaultContainer ==
    [loggers |-> Clear, pointers |-> <<>>, closed |-> FALSE]

\* DefaultContainer.Get
Get(c, level) == FindByLevel(c.loggers, level)

\* DefaultContainer.Close
ContainerClose(w) ==
    IF ~w.l.closed
    THEN LET c == ClosePointers(w, w.l.pointers) IN
         [c EXCEPT !.l.pointers = <<>>, !.l.closed = TRUE]
    ELSE w

----------------------------------------------------------------------------
(* Inputs *)

LoggerImpls == {"DefaultLogger", "Logger", "LoggerV1"}
Impls == LoggerImpls \cup {"DefaultContainer"}

LoggerName == <<"testing">>
Messages == {<<"This is a test.">>}
Paths == {"a.log"}
FileArgs == {"stdout", "mem"} \cup Paths
UserAliases == [a \in DOMAIN DefaultAliases \cup {"mem"} |->
                   IF a = "mem" THEN <<"writer", 2>> ELSE DefaultAliases[a]]

\* Map iteration orders tried by the logger specifications.
LogOrders ==
    {<<"{date}", "{level}", "{message}", "{name}">>,
     <<"{name}", "{message}", "{level}", "{date}">>}

\* The number of arguments of an Append list that name files, not aliases.
RECURSIVE CountPaths(_)
CountPaths(files) ==
    IF files = <<>> THEN 0
    ELSE (IF Head(files) \in DOMAIN Aliases THEN 0 ELSE 1) + CountPaths(Tail(files))

\* Room for n more registrations; a closed logger registers nothing.
CanRegister(n, bound) ==
    /\ impl \in LoggerImpls
    /\ (l.Loggers = Nil \/ Len(regs) + n <= bound)

----------------------------------------------------------------------------
(* Operations *)

\* The package-level variables of global.go before any call.
InitGlobal ==
    /\ globalInstance = 0
    /\ globalAppended = FALSE
    /\ globalLoggers = Nil
    /\ ninst = 0
    /\ calls = <<>>

InitEnv ==
    /\ nfiles = 0
    /\ closeCount = [s \in Sinks |-> 0]
    /\ regs = <<>>
    /\ last = [op |-> "New", level |-> 0, out |-> "return", trace |-> <<>>]

\* The process is alive: os.Exit has not been called.  A panic can be
\* recovered by the caller, so the program may go on after one.
Running == last.out # "exit"

Commit(w, op, level) ==
    /\ l' = w.l
    /\ nfiles' = w.nfiles
    /\ closeCount' = w.closeCount
    /\ regs' = w.regs
    /\ last' = [op |-> op, level |-> level, out |-> w.out, trace |-> w.trace]
    /\ UNCHANGED <<impl, m, FatalOn, PanicOn, PanicOnFileErrors, Aliases>>
    /\ UNCHANGED <<fm, globalInstance, globalAppended, globalLoggers, ninst>>
    /\ UNCHANGED <<calls, DefaultDateFormat>>

Logger_Append(file, level, openable) ==
    /\ Running /\ impl \in LoggerImpls
    /\ Commit(DoAppend(World, file, level, openable), "Append", level)

MultiAppend(files, level, openable) ==
    /\ Running /\ impl \in LoggerImpls
    /\ Commit(DoMultiAppend(World, files, level, openable), "MultiAppend", level)

AppendWriter(writer, level) ==
    /\ Running /\ impl \in LoggerImpls
    /\ Commit(DoAppendWriter(World, writer, level), "AppendWriter", level)

MultiAppendWriters(writers, level) ==
    /\ Running /\ impl \in LoggerImpls
    /\ Commit(DoMultiAppendWriters(World, writers, level), "MultiAppendWriters", level)

ClearAppended ==
    /\ Running /\ impl = "DefaultLogger"
    /\ Commit(DoClearAppended(World), "ClearAppended", 0)

Close ==
    /\ Running /\ impl \in LoggerImpls
    /\ Commit(DoClose(World), "Close", 0)

\* logger.Enabled = enabled
SetEnabled(enabled) ==
    /\ Running /\ impl \in LoggerImpls
    /\ Commit([World EXCEPT !.l.Enabled = enabled], "SetEnabled", 0)

Log(level, v) ==
    /\ Running /\ impl \in LoggerImpls
    /\ \E order \in LogOrders :
          Commit(DoLog(World, level, v, order), "Log", level)

CommitContainer(c, w, op, level) ==
    /\ m' = c
    /\ closeCount' = w.closeCount
    /\ regs' = w.regs
    /\ last' = [op |-> op, level |-> level, out |-> w.out, trace |-> w.trace]
    /\ UNCHANGED <<impl, l, FatalOn, PanicOn, PanicOnFileErrors, Aliases, nfiles>>
    /\ UNCHANGED <<fm, globalInstance, globalAppended, globalLoggers, ninst>>
    /\ UNCHANGED <<calls, DefaultDateFormat>>

ContainerWorld == [World EXCEPT !.l = m]

DefaultContainer_Append(writer, level) ==
    /\ impl = "DefaultContainer"
    /\ CommitContainer([m EXCEPT !.loggers = ContainerAppend(@, writer, level)],
                       [Emit(ContainerWorld, Ev("register", writer, <<>>)) EXCEPT
                           !.regs = Append(@, <<writer, level>>)],
                       "Append", level)

DefaultContainer_Get(level) ==
    /\ impl = "DefaultContainer"
    /\ CommitContainer(m, PrintAll(ContainerWorld, Get(m, level), <<>>), "Get", level)

DefaultContainer_Clear ==
    /\ impl = "DefaultContainer"
    /\ CommitContainer([m EXCEPT !.loggers = Clear],
                       [ContainerWorld EXCEPT !.regs = <<>>], "Clear", 0)

DefaultContainer_Close ==
    /\ impl = "DefaultContainer"
    /\ LET w == ContainerClose(ContainerWorld) IN
       CommitContainer(w.l, w, "Close", 0)

----------------------------------------------------------------------------
(* Spec: the life cycle of a logger or container - destinations, files,  *)
(* Close.  Escalation is off and the formatter is the default one.        *)

LifeThresholds == {WarningLevel}
LifeLevels == {DebugLevel, WarningLevel}

Init ==
    /\ impl \in Impls
    /\ \/ /\ impl \in LoggerImpls
          /\ l = NewLogger(LoggerName)
          /\ m = Nil
          /\ PanicOnFileErrors \in BOOLEAN
          /\ Aliases \in {DefaultAliases, UserAliases}
       \/ /\ impl = "DefaultContainer"
          /\ l = Nil
          /\ m = NewDefaultContainer
          /\ PanicOnFileErrors = TRUE
          /\ Aliases = DefaultAliases
    /\ FatalOn = 0
    /\ PanicOn = 0
    /\ InitEnv
    /\ InitGlobal
    /\ fm = Nil
    /\ DefaultDateFormat = InitialDateFormat

Next ==
    \/ \E f \in FileArgs, t \in LifeThresholds, o \in SUBSET Paths :
          /\ CanRegister(1, MaxAppend)
          /\ nfiles + CountPaths(<<f>>) <= MaxFiles
          /\ Logger_Append(f, t, o)
    \/ \E f1, f2 \in FileArgs, t \in LifeThresholds, o \in SUBSET Paths :
          /\ CanRegister(2, MaxAppend)
          /\ nfiles + CountPaths(<<f1, f2>>) <= MaxFiles
          /\ MultiAppend(<<f1, f2>>, t, o)
    \/ \E w \in Writers, t \in LifeThresholds :
          /\ CanRegister(1, MaxAppend)
          /\ AppendWriter(w, t)
    \/ \E w1, w2 \in Writers, t \in LifeThresholds :
          /\ CanRegister(2, MaxAppend)
          /\ MultiAppendWriters(<<w1, w2>>, t)
    \/ ClearAppended
    \/ Close
    \/ \E b \in BOOLEAN : SetEnabled(b)
    \/ \E lev \in LifeLevels, v \in Messages : Log(lev, v)
    \/ \E w \in Writers, t \in LifeThresholds :
          /\ Len(regs) < MaxAppend
          /\ DefaultContainer_Append(w, t)
    \/ \E lev \in LifeLevels : DefaultContainer_Get(lev)
    \/ DefaultContainer_Clear
    \/ DefaultContainer_Close

Spec == Init /\ [][Next]_vars

----------------------------------------------------------------------------
(* SpecRoute: which sinks a Log call reaches, for every threshold and     *)
(* every level, on a fresh logger and on a fresh container.               *)

InitRoute ==
    /\ impl \in {"DefaultLogger", "DefaultContainer"}
    /\ l = IF impl = "DefaultLogger" THEN NewLogger(LoggerName) ELSE Nil
    /\ m = IF impl = "DefaultContainer" THEN NewDefaultContainer ELSE Nil
    /\ FatalOn = 0
    /\ PanicOn = 0
    /\ PanicOnFileErrors = TRUE
    /\ Aliases = DefaultAliases
    /\ InitEnv
    /\ InitGlobal
    /\ fm = Nil
    /\ DefaultDateFormat = InitialDateFormat

NextRoute ==
    \/ \E w \in Writers, t \in CanonicalLevels :
          /\ CanRegister(1, MaxRouteAppend)
          /\ AppendWriter(w, t)
    \/ \E b \in BOOLEAN : SetEnabled(b)
    \/ \E lev \in CanonicalLevels, v \in Messages : Log(lev, v)
    \/ \E w \in Writers, t \in CanonicalLevels :
          /\ Len(regs) < MaxRouteAppend
          /\ DefaultContainer_Append(w, t)
    \/ \E lev \in CanonicalLevels : DefaultContainer_Get(lev)

SpecRoute == InitRoute /\ [][NextRoute]_vars

----------------------------------------------------------------------------
(* SpecEsc: escalation of a Log call (FatalOn / PanicOn), with the        *)
(* default formatter and with one that renders the empty string.          *)

EscThresholds == {DebugLevel, AlertLevel}
EscLevels == CanonicalLevels \cup {0, CriticalLevel + AlertLevel}
FatalMasks == {0, CriticalLevel + AlertLevel}
PanicMasks == {0, AlertLevel + EmergencyLevel}

InitEsc ==
    /\ impl \in LoggerImpls
    /\ l \in {NewLogger(LoggerName),
              [NewLogger(<<>>) EXCEPT !.Formatter = NullFormatter]}
    /\ m = Nil
    /\ FatalOn \in FatalMasks
    /\ PanicOn \in PanicMasks
    /\ PanicOnFileErrors = TRUE
    /\ Aliases = DefaultAliases
    /\ InitEnv
    /\ InitGlobal
    /\ fm = Nil
    /\ DefaultDateFormat = InitialDateFormat

NextEsc ==
    \/ \E w \in Writers, t \in EscThresholds :
          /\ CanRegister(1, MaxEscAppend)
          /\ AppendWriter(w, t)
    \/ \E b \in BOOLEAN : SetEnabled(b)
    \/ Close
    \/ \E lev \in EscLevels, v \in Messages : Log(lev, v)

SpecEsc == InitEsc /\ [][NextEsc]_vars

----------------------------------------------------------------------------
(* Properties *)

IsWrite(e) == e.e = "write"

\* The sinks written to by an operation, in the order of the writes.
RECURSIVE WriteSinks(_)
WriteSinks(trace) ==
    IF trace = <<>> THEN <<>>
    ELSE (IF IsWrite(Head(trace)) THEN <<Head(trace).sink>> ELSE <<>>)
         \o WriteSinks(Tail(trace))

HasEvent(trace, e) == \E i \in DOMAIN trace : trace[i].e = e

\* The line the default template renders at the model's clock value.
ExpectedMessage(name, level, v) ==
    <<"2014-11-15 09:40:28.693", " ">> \o name \o <<".">>
    \o (IF level \in CanonicalLevels THEN <<Levels[level]>> ELSE <<>>)
    \o <<" ">> \o v

\* Place of a canonical level in Debug < Info < ... < Emergency.
Rank(level) ==
    CASE level = DebugLevel -> 1 [] level = InfoLevel -> 2
      [] level = NoticeLevel -> 3 [] level = WarningLevel -> 4
      [] level = ErrorLevel -> 5 [] level = CriticalLevel -> 6
      [] level = AlertLevel -> 7 [] level = EmergencyLevel -> 8

Bits(x) == {i \in 0..7 : (x \div (2 ^ i)) % 2 = 1}
Intersects(a, b) == Bits(a) \cap Bits(b) # {}

AppendOps == {"Append", "MultiAppend", "AppendWriter", "MultiAppendWriters"}

\* C1: on a fresh enabled logger with one sink appended at a canonical
\* threshold T, Log at a canonical level L writes the rendered message to
\* that sink if and only if L is ranked at or above T; likewise Get(L) of a
\* fresh container returns the sink if and only if L is ranked at or above T.
C1_ThresholdRouting ==
    /\ (impl = "DefaultLogger" /\ Len(regs) = 1 /\ last.op = "Log"
            /\ l.Enabled /\ ~l.closed) =>
          \A v \in Messages :
            ((\E i \in DOMAIN last.trace :
                last.trace[i] =
                    Ev("write", regs[1][1],
                       ExpectedMessage(l.name, last.level, v) \o <<"\n">>))
             <=> Rank(last.level) >= Rank(regs[1][2]))
    /\ (impl = "DefaultContainer" /\ Len(regs) = 1 /\ last.op = "Get") =>
          ((\E i \in DOMAIN last.trace : last.trace[i].sink = regs[1][1])
           <=> Rank(last.level) >= Rank(regs[1][2]))

C1_Witness ==
    /\ impl = "DefaultLogger" /\ Len(regs) = 1 /\ regs[1][2] = WarningLevel
    /\ last.op = "Log" /\ last.level = CriticalLevel
    /\ l.Enabled /\ ~l.closed
    /\ WriteSinks(last.trace) = <<regs[1][1]>>

\* C2: for the Logger of src/logger.go, a Log call after Close() writes to
\* no sink and raises no fault, whatever Enabled was set to after the Close.
C2_LogAfterCloseIsNoop ==
    (impl = "Logger" /\ l.Loggers = Nil /\ last.op = "Log") =>
        (last.trace = <<>> /\ last.out = "return")

\* C3: a Log call on a writable logger whose formatter renders the empty
\* string writes nothing and does not escalate.
C3_EmptyMessageIsNoop ==
    (impl \in {"DefaultLogger", "Logger"} /\ last.op = "Log"
        /\ l.Enabled /\ ~l.closed /\ l.Formatter.type = "NullFormatter") =>
        (last.trace = <<>> /\ last.out = "return")

\* A Log call that ended in os.Exit or in panic(message).
Escalated(lst) ==
    /\ lst.op = "Log"
    /\ \/ lst.out = "exit"
       \/ lst.out = "panic" /\ lst.trace[Len(lst.trace)].msg # NilDeref

\* C4: when a Log call escalates, every sink registered for its level has
\* been written to, in order, before the exit or panic.
C4_DeliveryBeforeEscalation ==
    (impl \in {"DefaultLogger", "LoggerV1"} /\ Escalated(last)) =>
        WriteSinks(SubSeq(last.trace, 1, Len(last.trace) - 1))
            = FindByLevel(l.Loggers, last.level)

\* C5: Log on a writable logger exits if the level intersects FatalOn, else
\* panics with exactly the rendered message if it intersects PanicOn, else
\* returns; Log on a logger that is not writable does nothing.
C5_EscalationOutcome ==
    (impl = "DefaultLogger" /\ last.op = "Log") =>
        IF l.Enabled /\ ~l.closed
        THEN IF Intersects(last.level, FatalOn)
             THEN last.out = "exit" /\ ~HasEvent(last.trace, "panic")
             ELSE IF Intersects(last.level, PanicOn)
             THEN /\ last.out = "panic"
                  /\ \E v \in Messages :
                        last.trace[Len(last.trace)] =
                            Ev("panic", NoSink,
                               IF l.Formatter.type = "NullFormatter" THEN <<>>
                               ELSE ExpectedMessage(l.name, last.level, v))
             ELSE last.out = "return"
        ELSE last.out = "return" /\ last.trace = <<>>

C5_Witness ==
    /\ impl = "DefaultLogger" /\ last.op = "Log" /\ last.level = AlertLevel
    /\ Intersects(AlertLevel, FatalOn) /\ Intersects(AlertLevel, PanicOn)
    /\ l.Enabled /\ ~l.closed
    /\ last.out = "exit"

\* C6: while Enabled is false a Log call writes to no sink; assigning
\* Enabled changes no registration, and a Log call on the enabled, open
\* logger writes to exactly the sinks registered for its level.
C6_DisableSuppresses ==
    [][impl = "DefaultLogger" =>
        /\ (last'.op = "SetEnabled" =>
                l'.Loggers = l.Loggers /\ l'.pointers = l.pointers /\ regs' = regs)
        /\ (last'.op = "Log" /\ ~l.Enabled => WriteSinks(last'.trace) = <<>>)
        /\ (last'.op = "Log" /\ l.Enabled /\ ~l.closed =>
                WriteSinks(last'.trace) = FindByLevel(l.Loggers, last'.level))]_vars

C6_Witness ==
    /\ impl = "DefaultLogger" /\ last.op = "Log"
    /\ ~l.Enabled /\ ~l.closed
    /\ FindByLevel(l.Loggers, last.level) # <<>>
    /\ last.trace = <<>>

\* C7: Close is idempotent for DefaultLogger and DefaultContainer: Closed()
\* is true after Close and stays true, a Close on a closed object changes
\* nothing, and no file is closed more than once.
C7_CloseIdempotent ==
    [][/\ impl = "DefaultLogger" =>
            /\ (last'.op = "Close" => Closed(l'))
            /\ (Closed(l) => Closed(l'))
            /\ (Closed(l) /\ last'.op = "Close" =>
                    /\ l' = l /\ closeCount' = closeCount /\ nfiles' = nfiles
                    /\ last'.trace = <<>> /\ last'.out = "return")
       /\ impl = "DefaultContainer" =>
            /\ (last'.op = "Close" => m'.closed)
            /\ (m.closed => m'.closed)
            /\ (m.closed /\ last'.op = "Close" =>
                    /\ m' = m /\ closeCount' = closeCount
                    /\ last'.trace = <<>> /\ last'.out = "return")
       /\ \A s \in Sinks : closeCount'[s] <= 1]_vars

C7_Witness ==
    /\ impl = "DefaultLogger" /\ Closed(l)
    /\ last.op = "Close" /\ last.trace = <<>>
    /\ closeCount[<<"file", 1>>] = 1

\* C8: the logger closes only file handles it opened itself from a path;
\* sinks passed by the caller or resolved from an alias are never closed.
C8_OnlyOwnedFilesClosed ==
    impl \in LoggerImpls =>
        /\ \A s \in Sinks :
              closeCount[s] > 0 => (s \in FileHandles /\ s[2] <= nfiles)
        /\ \A i \in DOMAIN l.pointers : l.pointers[i] \in FileHandles

C8_Witness ==
    /\ impl \in LoggerImpls /\ last.op = "Close"
    /\ HasEvent(last.trace, "close")
    /\ \E i \in DOMAIN regs : regs[i][1] \notin FileHandles

\* C9: an Append whose file cannot be opened panics with the open error if
\* PanicOnFileErrors is true and returns normally otherwise; either way it
\* registers no sink and records no file to close.
C9_OpenFailure ==
    [][(impl = "DefaultLogger" /\ last'.op = "Append"
            /\ HasEvent(last'.trace, "openfail")) =>
        /\ l' = l /\ regs' = regs /\ nfiles' = nfiles /\ closeCount' = closeCount
        /\ IF PanicOnFileErrors
           THEN /\ last'.out = "panic"
                /\ last'.trace[Len(last'.trace)] = Ev("panic", NoSink, OpenError)
           ELSE last'.out = "return"]_vars

C9_Witness ==
    /\ impl = "DefaultLogger" /\ last.op = "Append"
    /\ HasEvent(last.trace, "openfail")
    /\ ~PanicOnFileErrors /\ last.out = "return"

\* C10: every destination-changing operation on a closed DefaultLogger
\* faults at once and does nothing else: it opens no file, registers no sink.
C10_ClosedLoggerFaults ==
    (impl = "DefaultLogger" /\ l.closed /\ last.op \in AppendOps) =>
        /\ last.out = "panic"
        /\ ~HasEvent(last.trace, "open")
        /\ ~HasEvent(last.trace, "register")

----------------------------------------------------------------------------
(* SpecLevels: the level order functions of src/loggable.go, applied to   *)
(* canonical levels and to values that are not canonical levels.          *)

NonCanonicalArgs ==
    {-1, 0, DebugLevel + InfoLevel, InfoLevel + WarningLevel,
     CriticalLevel + AlertLevel, 255, 256}
LevelArgs == CanonicalLevels \cup NonCanonicalArgs

InitLevels ==
    /\ impl = "levels"
    /\ l = Nil
    /\ m = Nil
    /\ FatalOn = 0
    /\ PanicOn = 0
    /\ PanicOnFileErrors = TRUE
    /\ Aliases = DefaultAliases
    /\ nfiles = 0
    /\ closeCount = [s \in Sinks |-> 0]
    /\ regs = <<>>
    /\ \E a, b, c \in LevelArgs :
          last = [op |-> "Levels", out |-> "return", a |-> a, b |-> b, c |-> c]
    /\ InitGlobal
    /\ fm = Nil
    /\ DefaultDateFormat = InitialDateFormat

\* One round of calls: the rank lookup of a, b and c, and IsGreaterLevel
\* and IsLesserLevel on every ordered pair of them.
CompareLevels(a, b, c) ==
    /\ impl = "levels" /\ last.op = "Levels"
    /\ last' = [op |-> "CompareLevels", out |-> "return",
                a |-> a, b |-> b, c |-> c,
                rank |-> [x \in {a, b, c} |-> searchForLevel(x)],
                greater |-> [x \in {a, b, c}, y \in {a, b, c} |-> IsGreaterLevel(x, y)],
                lesser |-> [x \in {a, b, c}, y \in {a, b, c} |-> IsLesserLevel(x, y)]]
    /\ UNCHANGED <<impl, l, m, FatalOn, PanicOn, PanicOnFileErrors, Aliases,
                   nfiles, closeCount, regs>>
    /\ UNCHANGED <<fm, globalInstance, globalAppended, globalLoggers, ninst>>
    /\ UNCHANGED <<calls, DefaultDateFormat>>

NextLevels == CompareLevels(last.a, last.b, last.c)

SpecLevels == InitLevels /\ [][NextLevels]_vars

Compared == impl = "levels" /\ last.op = "CompareLevels"

\* C11: on canonical levels IsGreaterLevel and IsLesserLevel are the strict
\* total order Debug < Info < Notice < Warning < Error < Critical < Alert <
\* Emergency: both return, exactly one of a = b, IsGreaterLevel(a, b),
\* IsLesserLevel(a, b) holds, IsGreaterLevel(a, b) = IsLesserLevel(b, a),
\* and IsGreaterLevel is transitive.
C11_StrictTotalOrder ==
    (Compared /\ {last.a, last.b, last.c} \subseteq CanonicalLevels) =>
        LET gt == last.greater
            lt == last.lesser
            S == {last.a, last.b, last.c}
        IN /\ \A x, y \in S : gt[x, y].out = "return" /\ lt[x, y].out = "return"
           /\ \A x, y \in S :
                 /\ Cardinality({k \in 1..3 :
                        \/ k = 1 /\ x = y
                        \/ k = 2 /\ gt[x, y].val
                        \/ k = 3 /\ lt[x, y].val}) = 1
                 /\ gt[x, y].val = lt[y, x].val
                 /\ gt[x, y].val = (Rank(x) > Rank(y))
           /\ \A x, y, z \in S : (gt[x, y].val /\ gt[y, z].val) => gt[x, z].val

C11_Witness ==
    /\ Compared
    /\ last.a = EmergencyLevel /\ last.b = WarningLevel /\ last.c = DebugLevel
    /\ last.greater[last.a, last.b].val /\ last.greater[last.b, last.c].val
    /\ last.greater[last.a, last.c].val /\ last.lesser[last.c, last.a].val

----------------------------------------------------------------------------
(* SpecMask: a container whose sinks are appended with a threshold that   *)
(* is the bitwise OR of canonical levels.                                 *)

\* A single level, the OR of two levels, and some ORs of more.
Masks ==
    {a : a \in CanonicalLevels}
    \cup {x \in {a + b : a, b \in CanonicalLevels} : Cardinality(Bits(x)) = 2}
    \cup {DebugLevel + NoticeLevel + ErrorLevel,
          InfoLevel + WarningLevel + EmergencyLevel, 255}

MaskWriters == {<<"writer", 1>>}

InitMask ==
    /\ impl = "DefaultContainer"
    /\ l = Nil
    /\ m = NewDefaultContainer
    /\ FatalOn = 0
    /\ PanicOn = 0
    /\ PanicOnFileErrors = TRUE
    /\ Aliases = DefaultAliases
    /\ InitEnv
    /\ InitGlobal
    /\ fm = Nil
    /\ DefaultDateFormat = InitialDateFormat

NextMask ==
    \/ \E w \in MaskWriters, t \in Masks :
          /\ Len(regs) < MaxMaskAppend
          /\ DefaultContainer_Append(w, t)
    \/ \E lev \in CanonicalLevels : DefaultContainer_Get(lev)

SpecMask == InitMask /\ [][NextMask]_vars

\* A threshold mask admits a canonical level that is one of its levels or
\* is more severe than the most severe of its levels.
Admits(mask, level) ==
    \/ Bits(level) \subseteq Bits(mask)
    \/ \A i \in Bits(mask) : \A j \in Bits(level) : j > i

\* C13: a sink appended to a container with a threshold mask M is returned
\* for a canonical level L if and only if L is one of the levels of M or L
\* is more severe than the most severe level of M: Get(L) returns each sink
\* once for every registration of it whose mask admits L.
C13_MaskThreshold ==
    (impl = "DefaultContainer" /\ last.op = "Get"
        /\ \A i \in DOMAIN regs : regs[i][2] \in Masks) =>
        \A w \in MaskWriters :
            Cardinality({k \in DOMAIN last.trace : last.trace[k].sink = w})
              = Cardinality({i \in DOMAIN regs :
                    regs[i][1] = w /\ Admits(regs[i][2], last.level)})

C13_Witness ==
    /\ impl = "DefaultContainer" /\ last.op = "Get"
    /\ regs = <<<< <<"writer", 1>>, WarningLevel + InfoLevel >>>>
    /\ last.level = InfoLevel
    /\ WriteSinks(last.trace) = << <<"writer", 1>> >>

----------------------------------------------------------------------------
(* The package-level logger and the logger registry (src/global.go).      *)
(* globalInstance is a *DefaultLogger; its methods are those of the       *)
(* DefaultLogger of src/unnamed/part_004.  The variable l holds the       *)
(* object globalInstance points to, Nil when globalInstance is nil.       *)

GlobalName == <<"xlog">>

\* The state a global function reads and writes: the world of the logger,
\* the package variables, the logger Instance() created in this call (or
\* Nil) and the identity of the logger the call acted on.
GlobalWorld ==
    [w |-> World, gi |-> globalInstance, ga |-> globalAppended, n |-> ninst,
     fresh |-> Nil, inst |-> 0]

\* Mutant: the new global logger gets no default sink.
GInstance_NoStdout(g) ==
    IF g.gi = 0
    THEN LET w0 == [g.w EXCEPT !.l = NewLogger(GlobalName), !.regs = <<>>] IN
         [g EXCEPT !.w = w0, !.gi = g.n + 1, !.n = g.n + 1, !.ga = FALSE,
                   !.fresh = w0.l, !.inst = g.n + 1]
    ELSE [g EXCEPT !.inst = g.gi]

\* Instance()
GInstance(g) ==
    IF g.gi = 0
    THEN LET w0 == [g.w EXCEPT !.l = NewLogger(GlobalName), !.regs = <<>>]
             w1 == DoAppend(w0, "stdout", DebugLevel, {})
         IN [g EXCEPT !.w = w1, !.gi = g.n + 1, !.n = g.n + 1, !.ga = FALSE,
                      !.fresh = w1.l, !.inst = g.n + 1]
    ELSE [g EXCEPT !.inst = g.gi]

\* if !globalAppended { Instance().ClearAppended(); globalAppended = true }
GClearDefault(g) ==
    IF ~g.ga
    THEN LET i == GInstance(g) IN
         [i EXCEPT !.w = DoClearAppended(i.w), !.ga = TRUE]
    ELSE g

\* The global Append / MultiAppend / AppendWriter / MultiAppendWriters.
GAppend(g, file, level, openable) ==
    LET i == GInstance(GClearDefault(g)) IN
    [i EXCEPT !.w = DoAppend(i.w, file, level, openable)]

GMultiAppend(g, files, level, openable) ==
    LET i == GInstance(GClearDefault(g)) IN
    [i EXCEPT !.w = DoMultiAppend(i.w, files, level, openable)]

GAppendWriter(g, writer, level) ==
    LET i == GInstance(GClearDefault(g)) IN
    [i EXCEPT !.w = DoAppendWriter(i.w, writer, level)]

GMultiAppendWriters(g, writers, level) ==
    LET i == GInstance(GClearDefault(g)) IN
    [i EXCEPT !.w = DoMultiAppendWriters(i.w, writers, level)]

\* The global Close(): Instance().Close(); globalInstance = nil
GClose(g) ==
    LET i == GInstance(g) IN
    [i EXCEPT !.w = [DoClose(i.w) EXCEPT !.l = Nil], !.gi = 0]

GLog(g, level, v, order) ==
    LET i == GInstance(g) IN [i EXCEPT !.w = DoLog(i.w, level, v, order)]

GSetEnabled(g, enabled) ==
    LET i == GInstance(g) IN [i EXCEPT !.w.l.Enabled = enabled]

GlobalCommit(g, op, level) ==
    /\ l' = g.w.l
    /\ nfiles' = g.w.nfiles
    /\ closeCount' = g.w.closeCount
    /\ regs' = g.w.regs
    /\ globalInstance' = g.gi
    /\ globalAppended' = g.ga
    /\ ninst' = g.n
    /\ last' = [op |-> op, level |-> level, out |-> g.w.out, trace |-> g.w.trace,
                inst |-> g.inst, fresh |-> g.fresh]
    /\ UNCHANGED <<impl, m, FatalOn, PanicOn, PanicOnFileErrors, Aliases,
                   fm, globalLoggers, calls, DefaultDateFormat>>

Global_Instance ==
    /\ impl = "global"
    /\ GlobalCommit(GInstance(GlobalWorld), "Instance", 0)

Global_Append(file, level, openable) ==
    /\ impl = "global"
    /\ GlobalCommit(GAppend(GlobalWorld, file, level, openable), "Append", level)

Global_MultiAppend(files, level, openable) ==
    /\ impl = "global"
    /\ GlobalCommit(GMultiAppend(GlobalWorld, files, level, openable),
                    "MultiAppend", level)

Global_AppendWriter(writer, level) ==
    /\ impl = "global"
    /\ GlobalCommit(GAppendWriter(GlobalWorld, writer, level), "AppendWriter", level)

Global_MultiAppendWriters(writers, level) ==
    /\ impl = "global"
    /\ GlobalCommit(GMultiAppendWriters(GlobalWorld, writers, level),
                    "MultiAppendWriters", level)

Global_Close ==
    /\ impl = "global"
    /\ GlobalCommit(GClose(GlobalWorld), "Close", 0)

Global_SetEnabled(enabled) ==
    /\ impl = "global"
    /\ GlobalCommit(GSetEnabled(GlobalWorld, enabled), "SetEnabled", 0)

Global_Log(level, v) ==
    /\ impl = "global"
    /\ \E order \in LogOrders :
          GlobalCommit(GLog(GlobalWorld, level, v, order), "Log", level)

\* The registry after GetLogger(name): the map is made on first use and
\* a logger is created for a name that has none.
LoggersAfterGet(loggers, name, n) ==
    LET made == IF loggers = Nil THEN <<>> ELSE loggers IN
    IF name \in DOMAIN made THEN made
    ELSE [k \in DOMAIN made \cup {name} |->
            IF k = name THEN n + 1 ELSE made[k]]

\* Mutant: a logger is created on every call.
GetLogger_AlwaysNew(name) ==
    /\ impl = "global"
    /\ LET made == IF globalLoggers = Nil THEN <<>> ELSE globalLoggers
           after == [k \in DOMAIN made \cup {name} |->
                        IF k = name THEN ninst + 1 ELSE made[k]]
       IN /\ globalLoggers' = after
          /\ ninst' = ninst + 1
          /\ last' = [op |-> "GetLogger", level |-> 0, out |-> "return",
                      trace |-> <<>>, name |-> name, ret |-> after[name],
                      created |-> TRUE]
    /\ UNCHANGED <<impl, l, m, FatalOn, PanicOn, PanicOnFileErrors, Aliases,
                   nfiles, closeCount, regs, fm, globalInstance, globalAppended,
                   calls, DefaultDateFormat>>

GetLogger(name) ==
    /\ impl = "global"
    /\ LET after == LoggersAfterGet(globalLoggers, name, ninst)
           created == globalLoggers = Nil \/ name \notin DOMAIN globalLoggers
       IN /\ globalLoggers' = after
          /\ ninst' = IF created THEN ninst + 1 ELSE ninst
          /\ last' = [op |-> "GetLogger", level |-> 0, out |-> "return",
                      trace |-> <<>>, name |-> name, ret |-> after[name],
                      created |-> created]
    /\ UNCHANGED <<impl, l, m, FatalOn, PanicOn, PanicOnFileErrors, Aliases,
                   nfiles, closeCount, regs, fm, globalInstance, globalAppended,
                   calls, DefaultDateFormat>>

----------------------------------------------------------------------------
(* SpecGlobal: the package-level functions, called one after another.    *)

GlobalFiles == {"stderr"} \cup Paths
GlobalWriters == {<<"writer", 1>>}
GlobalThresholds == {WarningLevel}
GlobalLevels == {DebugLevel, WarningLevel}
LoggerNames == {<<"a">>, <<"b">>, <<"c">>}

InitGlobalSpec ==
    /\ impl = "global"
    /\ l = Nil
    /\ m = Nil
    /\ FatalOn = 0
    /\ PanicOn = 0
    /\ PanicOnFileErrors = TRUE
    /\ Aliases = DefaultAliases
    /\ InitEnv
    /\ InitGlobal
    /\ fm = Nil
    /\ DefaultDateFormat = InitialDateFormat

\* A call may create a logger only while fewer than MaxInst exist.
CanCreate == globalInstance # 0 \/ ninst < MaxInst

\* Room for n registrations after a global append function has cleared
\* the default sink or found a logger to add to.
CanAppendGlobal(n) ==
    /\ CanCreate
    /\ (IF globalAppended
        THEN (IF globalInstance = 0 THEN 1 ELSE Len(regs))
        ELSE 0) + n <= MaxGlobalAppend

NextGlobal ==
    \/ CanCreate /\ Global_Instance
    \/ \E f \in GlobalFiles, t \in GlobalThresholds :
          /\ CanAppendGlobal(1)
          /\ nfiles + CountPaths(<<f>>) <= MaxFiles
          /\ Global_Append(f, t, Paths)
    \/ \E f1, f2 \in GlobalFiles, t \in GlobalThresholds :
          /\ CanAppendGlobal(2)
          /\ nfiles + CountPaths(<<f1, f2>>) <= MaxFiles
          /\ Global_MultiAppend(<<f1, f2>>, t, Paths)
    \/ \E w \in GlobalWriters, t \in GlobalThresholds :
          /\ CanAppendGlobal(1)
          /\ Global_AppendWriter(w, t)
    \/ \E w1, w2 \in GlobalWriters, t \in GlobalThresholds :
          /\ CanAppendGlobal(2)
          /\ Global_MultiAppendWriters(<<w1, w2>>, t)
    \/ CanCreate /\ Global_Close
    \/ \E b \in BOOLEAN : CanCreate /\ Global_SetEnabled(b)
    \/ \E lev \in GlobalLevels, v \in Messages : CanCreate /\ Global_Log(lev, v)
    \/ \E name \in LoggerNames :
          /\ (globalLoggers # Nil /\ name \in DOMAIN globalLoggers) \/ ninst < MaxInst
          /\ GetLogger(name)

SpecGlobal == InitGlobalSpec /\ [][NextGlobal]_vars

InstanceOps ==
    {"Instance", "Append", "MultiAppend", "AppendWriter", "MultiAppendWriters",
     "Close", "SetEnabled", "Log"}

\* The names GetLogger has bound so far.
BoundNames == IF globalLoggers = Nil THEN {} ELSE DOMAIN globalLoggers

\* C14: GetLogger returns the logger bound to the name: a call with a name
\* that is bound returns the bound logger, different names are bound to
\* different loggers, and a binding never changes or disappears.
C14_GetLoggerIdentity ==
    [][impl = "global" =>
        /\ \A name \in BoundNames :
              /\ globalLoggers' # Nil
              /\ name \in DOMAIN globalLoggers'
              /\ globalLoggers'[name] = globalLoggers[name]
        /\ last'.op = "GetLogger" =>
              /\ last'.ret = globalLoggers'[last'.name]
              /\ \A a, b \in DOMAIN globalLoggers' :
                    a # b => globalLoggers'[a] # globalLoggers'[b]
       ]_vars

C14_Witness ==
    /\ impl = "global" /\ last.op = "GetLogger" /\ ~last.created
    /\ Cardinality(BoundNames) >= 2
    /\ last.ret = globalLoggers[last.name]
    /\ \E other \in BoundNames : globalLoggers[other] # last.ret

\* C15: once a global append function has registered a sink with the
\* current global logger, the default stdout sink is not registered.
C15_AppendRemovesStdout ==
    (impl = "global" /\ l # Nil /\ \E i \in DOMAIN regs : regs[i][1] # Stdout) =>
        \A lev \in DOMAIN l.Loggers :
            \A i \in DOMAIN l.Loggers[lev] : l.Loggers[lev][i] # Stdout

\* C16: a global function called while there is no global logger (before
\* the first use and after Close) acts on a logger created in that call,
\* which is enabled, not closed, named "xlog" and has stdout registered at
\* DebugLevel; called while there is one, it acts on that one, and only
\* Close discards it.
C16_FreshInstanceAfterClose ==
    [][(impl = "global" /\ last'.op \in InstanceOps) =>
        /\ IF globalInstance = 0
           THEN /\ last'.inst = ninst + 1
                /\ last'.fresh # Nil
                /\ last'.fresh.Enabled /\ ~last'.fresh.closed
                /\ last'.fresh.name = <<"xlog">>
                /\ last'.fresh.Loggers # Nil
                /\ \A lev \in CanonicalLevels :
                      last'.fresh.Loggers[lev] = <<Stdout>>
           ELSE last'.inst = globalInstance /\ last'.fresh = Nil
        /\ globalInstance' = IF last'.op = "Close" THEN 0 ELSE last'.inst
       ]_vars

C16_Witness ==
    /\ impl = "global" /\ last.op = "Log" /\ last.level = DebugLevel
    /\ last.inst = 2 /\ last.fresh # Nil /\ globalInstance = 2
    /\ globalLoggers = Nil
    /\ WriteSinks(last.trace) = <<Stdout>>

----------------------------------------------------------------------------
(* SpecFormat: a formatter on its own - templates, date formats,          *)
(* placeholder suppliers and Format.                                      *)

FormatterImpls == {"DefaultFormatter", "MapFormatter"}

Templates ==
    {DefaultMessageFormat,
     <<"{level}", " ", "{message}">>,
     <<"{date|", "2006-01-02", "}", " ", "{date|", "15:04", "}", " ", "{message}">>,
     <<"{host}", " ", "{env}", " ", "{host}", " ", "{message}">>,
     <<"{date|", "}", "{date}", " ", "{name}">>}

DateFormats == {InitialDateFormat, "Jan 2"}
Keys == {"host", "env"}

\* Suppliers: constant text, and text that holds a placeholder token.
Suppliers ==
    {[k \in Keys |-> <<"svc-1">>],
     [k \in Keys |-> <<"svc-2">>],
     [k \in Keys |-> <<"{env}">>]}

FormatNames == {<<"testing">>, <<"{level}">>}
FormatLevels == {DebugLevel}
FormatArgs == {<<"This is a test.">>, <<"{name}">>, <<"{host}">>}

\* The orders in which Go may range over a map with the keys of funcs.
FuncOrders(funcs) ==
    {o \in [1..Cardinality(DOMAIN funcs) -> DOMAIN funcs] :
        \A i, j \in DOMAIN o : i # j => o[i] # o[j]}

InitFormat ==
    /\ impl \in FormatterImpls
    /\ l = Nil
    /\ m = Nil
    /\ FatalOn = 0
    /\ PanicOn = 0
    /\ PanicOnFileErrors = TRUE
    /\ Aliases = DefaultAliases
    /\ nfiles = 0
    /\ closeCount = [s \in Sinks |-> 0]
    /\ regs = <<>>
    /\ InitGlobal
    /\ DefaultDateFormat = InitialDateFormat
    /\ \E t \in Templates, d \in DateFormats :
          /\ fm = IF impl = "MapFormatter" THEN NewMapFormatter(t, d)
                  ELSE NewDefaultFormatter(t)
          /\ last = [op |-> "NewDefaultFormatter", out |-> "return", format |-> t]

FormatterCommit(f, lst) ==
    /\ fm' = f
    /\ last' = lst
    /\ UNCHANGED <<impl, l, m, FatalOn, PanicOn, PanicOnFileErrors, Aliases,
                   nfiles, closeCount, regs,
                   globalInstance, globalAppended, globalLoggers, ninst, calls>>
    /\ UNCHANGED DefaultDateFormat

Formatter_SetFormat(format) ==
    /\ impl = "MapFormatter"
    /\ FormatterCommit(SetFormat(fm, format),
                       [op |-> "SetFormat", out |-> "return", format |-> format])

Formatter_SetMessageFormat(messageFormat) ==
    /\ impl = "DefaultFormatter"
    /\ FormatterCommit(SetMessageFormat(fm, messageFormat),
                       [op |-> "SetMessageFormat", out |-> "return",
                        format |-> messageFormat])

\* xlog.DefaultDateFormat = dateFormat: the package variable is assigned.
SetDefaultDateFormat(dateFormat) ==
    /\ impl \in FormatterImpls
    /\ DefaultDateFormat' = dateFormat
    /\ last' = [op |-> "SetDefaultDateFormat", out |-> "return",
                format |-> <<dateFormat>>]
    /\ UNCHANGED <<impl, l, m, FatalOn, PanicOn, PanicOnFileErrors, Aliases,
                   nfiles, closeCount, regs, fm,
                   globalInstance, globalAppended, globalLoggers, ninst, calls>>

Formatter_PlaceholderFunc(key, fn) ==
    /\ impl = "MapFormatter"
    /\ FormatterCommit(PlaceholderFunc(fm, key, fn),
                       [op |-> "PlaceholderFunc", out |-> "return",
                        key |-> key, fn |-> fn])

Formatter_Format(name, level, v) ==
    /\ impl \in FormatterImpls
    /\ \E order \in PlaceholderOrders :
          \/ /\ impl = "DefaultFormatter"
             /\ FormatterCommit(fm,
                    [op |-> "Format", out |-> "return", name |-> name,
                     level |-> level, v |-> v,
                     ret |-> Format(fm, name, level, v, order)])
          \/ /\ impl = "MapFormatter"
             /\ \E forder \in FuncOrders(fm.funcs) :
                   FormatterCommit(fm,
                      [op |-> "Format", out |-> "return", name |-> name,
                       level |-> level, v |-> v,
                       ret |-> MapFormat(fm, name, level, v, order, forder)])

NextFormat ==
    \/ \E t \in Templates : Formatter_SetFormat(t)
    \/ \E t \in Templates : Formatter_SetMessageFormat(t)
    \/ \E d \in DateFormats : SetDefaultDateFormat(d)
    \/ \E key \in Keys, fn \in Suppliers : Formatter_PlaceholderFunc(key, fn)
    \/ \E name \in FormatNames, lev \in FormatLevels, v \in FormatArgs :
          Formatter_Format(name, lev, v)

SpecFormat == InitFormat /\ [][NextFormat]_vars

\* The template with every token that has a value replaced by that value,
\* in one pass: the values themselves are not looked at again.
RECURSIVE SinglePass(_, _)
SinglePass(s, values) ==
    IF s = <<>> THEN <<>>
    ELSE (IF Head(s) \in DOMAIN values THEN values[Head(s)] ELSE <<Head(s)>>)
         \o SinglePass(Tail(s), values)

\* What each placeholder of a Format call stands for.
BuiltinValues(f, name, level, v) ==
    [p \in Placeholders |->
        CASE p = "{date}" -> <<TimeFormat(f.dateFormat)>>
          [] p = "{level}" -> (IF level \in CanonicalLevels THEN <<Levels[level]>> ELSE <<>>)
          [] p = "{message}" -> v
          [] p = "{name}" -> name]

CustomValues(f) ==
    [tok \in {KeyToken(k) : k \in DOMAIN f.funcs} |->
        LET key == CHOOSE k \in DOMAIN f.funcs : KeyToken(k) = tok IN
        f.funcs[key][key]]

ExpectedFormat(f, name, level, v) ==
    SinglePass(f.messageFormat,
               BuiltinValues(f, name, level, v)
               @@ (IF impl = "MapFormatter" THEN CustomValues(f) ELSE <<>>))

PlaceholderTokens == Placeholders \cup {KeyToken(k) : k \in Keys}
Plain(text) == \A i \in DOMAIN text : text[i] \notin PlaceholderTokens

\* C17: Format does no nested substitution: the rendered line is the
\* template with each placeholder replaced by its value, and a placeholder
\* token inside the arguments, the name or any other value stays verbatim.
C17_NoNestedSubstitution ==
    (impl \in FormatterImpls /\ last.op = "Format") =>
        last.ret = ExpectedFormat(fm, last.name, last.level, last.v)

\* The positions of a template where an inline date token {date|<fmt>} starts.
InlineStarts(t) ==
    {i \in DOMAIN t :
        /\ i + 2 <= Len(t)
        /\ t[i] = "{date|" /\ t[i + 1] # "}" /\ t[i + 2] = "}"}

FirstInline(t) == CHOOSE i \in InlineStarts(t) : \A j \in InlineStarts(t) : i <= j

\* C18: SetFormat (src/map.go) with a template that holds an inline date
\* token makes its format the active date format; SetFormat with a template
\* that holds none leaves the active date format as it was.
C18_SetFormatKeepsDateFormat ==
    [][(impl = "MapFormatter" /\ last'.op = "SetFormat") =>
          fm'.dateFormat =
              IF InlineStarts(last'.format) # {}
              THEN last'.format[FirstInline(last'.format) + 1]
              ELSE fm.dateFormat
      ]_vars

C18_Witness ==
    /\ impl = "MapFormatter" /\ last.op = "SetFormat"
    /\ InlineStarts(last.format) = {}
    /\ fm.dateFormat = "2006-01-02"

RECURSIVE Ascending(_)
Ascending(S) ==
    IF S = {} THEN <<>>
    ELSE LET x == CHOOSE y \in S : \A z \in S : y <= z IN
         <<x>> \o Ascending(S \ {x})

\* The template t with every inline date token turned into {date}.
Rewritten(t) ==
    LET starts == InlineStarts(t)
        kept == Ascending(DOMAIN t \ UNION {{i + 1, i + 2} : i \in starts})
    IN [j \in DOMAIN kept |->
            IF kept[j] \in starts THEN "{date}" ELSE t[kept[j]]]

\* C19: after NewDefaultFormatter or SetFormat (src/map.go) the stored
\* template holds no inline date token: it is the given template with every
\* inline date token replaced by {date} and nothing else changed, and the
\* date format is that of the first inline date token.
C19_TemplateHoldsBareDate ==
    (impl = "MapFormatter" /\ last.op \in {"NewDefaultFormatter", "SetFormat"}) =>
        /\ InlineStarts(fm.messageFormat) = {}
        /\ fm.messageFormat = Rewritten(last.format)
        /\ InlineStarts(last.format) # {} =>
              fm.dateFormat = last.format[FirstInline(last.format) + 1]

C19_Witness ==
    /\ impl = "MapFormatter" /\ last.op = "SetFormat"
    /\ Cardinality(InlineStarts(last.format)) = 2
    /\ fm.messageFormat = <<"{date}", " ", "{date}", " ", "{message}">>
    /\ fm.dateFormat = "2006-01-02"

\* C20: in the output of Format (src/map.go) every {key} token of the
\* template whose key has a supplier is replaced by what the supplier last
\* registered for the key returns for it, and a {key} token without a
\* supplier is left as it is; the arguments and the name are plain text.
C20_CustomPlaceholders ==
    /\ (impl = "MapFormatter" /\ last.op = "PlaceholderFunc") =>
          fm.funcs[last.key] = last.fn
    /\ (impl = "MapFormatter" /\ last.op = "Format"
            /\ Plain(last.v) /\ Plain(last.name)) =>
          last.ret = ExpectedFormat(fm, last.name, last.level, last.v)

----------------------------------------------------------------------------
(* SpecConc: GetLogger (src/global.go) called from several goroutines.    *)
(* A call is a sequence of steps, one per access to globalLoggers; impl   *)
(* tells whether the callers hold a mutex around each call ("mutex") or   *)
(* call without any synchronisation ("unsynchronised").                   *)

ConcImpls == {"unsynchronised", "mutex"}
Callers == {1, 2}
ConcNames == {<<"a">>, <<"b">>}

Idle == [pc |-> "idle", name |-> <<>>, ok |-> FALSE, new |-> 0, ret |-> 0]

InProgress(c) == calls[c].pc \notin {"idle", "done"}

\* The process has not died of a fatal runtime error.
Alive == \A c \in Callers : calls[c].pc # "fatal"

ConcCommit(c, call) ==
    /\ calls' = [calls EXCEPT ![c] = call]
    /\ last' = [op |-> "GetLogger", level |-> 0, out |-> "return", trace |-> <<>>,
                caller |-> c, pc |-> call.pc]
    /\ UNCHANGED <<impl, l, m, FatalOn, PanicOn, PanicOnFileErrors, Aliases,
                   nfiles, closeCount, regs, fm, globalInstance, globalAppended,
                   DefaultDateFormat>>

\* A caller enters GetLogger(name); under the mutex discipline it waits
\* until no other call is in progress.
GetLogger_Call(c, name) ==
    /\ impl \in ConcImpls /\ Alive /\ ~InProgress(c)
    /\ impl = "mutex" => \A d \in Callers : ~InProgress(d)
    /\ ConcCommit(c, [Idle EXCEPT !.pc = "nil?", !.name = name])
    /\ UNCHANGED <<globalLoggers, ninst>>

\* if globalLoggers == nil
GetLogger_NilCheck(c) ==
    /\ impl \in ConcImpls /\ Alive /\ calls[c].pc = "nil?"
    /\ ConcCommit(c, [calls[c] EXCEPT
                         !.pc = IF globalLoggers = Nil THEN "make" ELSE "lookup"])
    /\ UNCHANGED <<globalLoggers, ninst>>

\* globalLoggers = make(map[string]*DefaultLogger)
GetLogger_Make(c) ==
    /\ impl \in ConcImpls /\ Alive /\ calls[c].pc = "make"
    /\ globalLoggers' = <<>>
    /\ ConcCommit(c, [calls[c] EXCEPT !.pc = "lookup"])
    /\ UNCHANGED ninst

\* Mutant: the lookup always reports the name as absent.
Lookup_Absent(loggers, name) == FALSE

\* _, ok := globalLoggers[name]
Lookup(loggers, name) == name \in DOMAIN loggers

GetLogger_Lookup(c) ==
    /\ impl \in ConcImpls /\ Alive /\ calls[c].pc = "lookup"
    /\ LET ok == Lookup(globalLoggers, calls[c].name) IN
       ConcCommit(c, [calls[c] EXCEPT !.ok = ok,
                                      !.pc = IF ok THEN "return" ELSE "new"])
    /\ UNCHANGED <<globalLoggers, ninst>>

\* New(name)
GetLogger_New(c) ==
    /\ impl \in ConcImpls /\ Alive /\ calls[c].pc = "new"
    /\ ninst' = ninst + 1
    /\ ConcCommit(c, [calls[c] EXCEPT !.new = ninst + 1, !.pc = "store"])
    /\ UNCHANGED globalLoggers

\* Another goroutine is between its first and last access to the map.
Racing(c) ==
    \E d \in Callers \ {c} : calls[d].pc \in {"lookup", "new", "store", "return"}

\* globalLoggers[name] = New(name).  A map write that races with another
\* goroutine's access is a data race: the write may take effect, or the
\* runtime may stop the process ("concurrent map writes").
GetLogger_Store(c) ==
    /\ impl \in ConcImpls /\ Alive /\ calls[c].pc = "store"
    /\ \/ /\ globalLoggers' =
                [k \in DOMAIN globalLoggers \cup {calls[c].name} |->
                    IF k = calls[c].name THEN calls[c].new ELSE globalLoggers[k]]
          /\ ConcCommit(c, [calls[c] EXCEPT !.pc = "return"])
       \/ /\ Racing(c)
          /\ ConcCommit(c, [calls[c] EXCEPT !.pc = "fatal"])
          /\ UNCHANGED globalLoggers
    /\ UNCHANGED ninst

\* return globalLoggers[name]; a missing key reads as nil (0).
GetLogger_Return(c) ==
    /\ impl \in ConcImpls /\ Alive /\ calls[c].pc = "return"
    /\ ConcCommit(c, [calls[c] EXCEPT
          !.ret = IF calls[c].name \in DOMAIN globalLoggers
                  THEN globalLoggers[calls[c].name] ELSE 0,
          !.pc = "done"])
    /\ UNCHANGED <<globalLoggers, ninst>>

InitConc ==
    /\ impl \in ConcImpls
    /\ l = Nil
    /\ m = Nil
    /\ FatalOn = 0
    /\ PanicOn = 0
    /\ PanicOnFileErrors = TRUE
    /\ Aliases = DefaultAliases
    /\ InitEnv
    /\ globalInstance = 0
    /\ globalAppended = FALSE
    /\ globalLoggers = Nil
    /\ ninst = 0
    /\ calls = [c \in Callers |-> Idle]
    /\ fm = Nil
    /\ DefaultDateFormat = InitialDateFormat

NextConc ==
    \E c \in Callers :
        \/ \E name \in ConcNames : ninst < MaxInst /\ GetLogger_Call(c, name)
        \/ GetLogger_NilCheck(c)
        \/ GetLogger_Make(c)
        \/ GetLogger_Lookup(c)
        \/ GetLogger_New(c)
        \/ GetLogger_Store(c)
        \/ GetLogger_Return(c)

SpecConc == InitConc /\ [][NextConc]_vars

\* The calls that have returned agree on the logger of each name, and it
\* is the logger the registry holds for the name.
CallersAgree ==
    \A c, d \in Callers :
        (calls[c].pc = "done" /\ calls[d].pc = "done"
            /\ calls[c].name = calls[d].name) =>
            /\ calls[c].ret = calls[d].ret
            /\ calls[c].ret # 0
            /\ globalLoggers # Nil /\ calls[c].name \in DOMAIN globalLoggers
            /\ globalLoggers[calls[c].name] = calls[c].ret

\* In this step no name changes the logger it is bound to.
BindingsKept ==
    (globalLoggers # Nil) =>
        /\ globalLoggers' # Nil
        /\ \A name \in DOMAIN globalLoggers :
              /\ name \in DOMAIN globalLoggers'
              /\ globalLoggers'[name] = globalLoggers[name]

\* C21 as stated: for every interleaving of GetLogger calls, with or
\* without a lock, the callers of a name obtain the same logger, no call
\* ends in a fault and the registry never binds the name to another one.
C21_SingleInstanceUnlocked ==
    [][(impl \in ConcImpls) => (CallersAgree' /\ Alive' /\ BindingsKept)
      ]_vars

\* C21 amended: when the callers serialise their GetLogger calls with a
\* mutex, the callers of a name obtain the same logger, no call ends in a
\* fault and the registry never binds the name to another one.
C21_SingleInstanceLocked ==
    [][impl = "mutex" => (CallersAgree' /\ Alive' /\ BindingsKept)
      ]_vars

C21_Witness ==
    /\ impl = "mutex"
    /\ calls[1].pc = "done" /\ calls[2].pc = "done"
    /\ calls[1].name = calls[2].name
    /\ calls[1].ret = calls[2].ret /\ calls[1].ret # 0
    /\ ninst = 1

\* Every canonical level has a bucket, and every bucket is empty.
EmptyBuckets(loggers) ==
    /\ DOMAIN loggers = CanonicalLevels
    /\ \A lev \in CanonicalLevels : loggers[lev] = <<>>

\* C22: Clear leaves one empty bucket for each of the eight canonical
\* levels and changes neither the closed flag nor the owned file handles;
\* Get right after Clear returns nothing, and Append at a threshold T right
\* after Clear fills exactly the buckets ranked at or above T.  The same
\* holds for the buckets of a logger after ClearAppended.
C22_ClearResetsBuckets ==
    [][/\ (impl = "DefaultContainer" /\ last'.op = "Clear") =>
            /\ EmptyBuckets(m'.loggers)
            /\ m'.closed = m.closed /\ m'.pointers = m.pointers
       /\ (impl = "DefaultContainer" /\ last.op = "Clear" /\ last'.op = "Get") =>
            last'.trace = <<>>
       /\ (impl = "DefaultContainer" /\ last.op = "Clear" /\ last'.op = "Append") =>
            /\ DOMAIN m'.loggers = CanonicalLevels
            /\ \A lev \in CanonicalLevels :
                  m'.loggers[lev] =
                      IF Rank(lev) >= Rank(last'.level)
                      THEN <<regs'[1][1]>> ELSE <<>>
       /\ (impl = "DefaultLogger" /\ last'.op = "ClearAppended"
               /\ last'.out = "return") =>
            /\ EmptyBuckets(l'.Loggers)
            /\ l'.closed = l.closed /\ l'.pointers = l.pointers
      ]_vars

C22_Witness ==
    /\ impl = "DefaultContainer" /\ last.op = "Clear"
    /\ m.closed /\ EmptyBuckets(m.loggers)

\* C23: a Log call changes nothing of the logger's configuration: Enabled,
\* closed, the sinks of every bucket and their order, the owned file handles
\* and the formatter (template and date format) are after the call what
\* they were before it, and no file is opened or closed by it.
C23_LogKeepsConfiguration ==
    [][(impl \in LoggerImpls /\ last'.op = "Log") =>
          /\ l' = l
          /\ regs' = regs
          /\ nfiles' = nfiles
          /\ closeCount' = closeCount
      ]_vars

C23_Witness ==
    /\ impl = "DefaultLogger" /\ last.op = "Log"
    /\ WriteSinks(last.trace) # <<>>
    /\ l.pointers # <<>> /\ l.Enabled /\ ~l.closed

\* C24: after SetMessageFormat(t) (src/formatter.go) the active date format
\* is the inline format of t when t holds an inline date token, and else the
\* value DefaultDateFormat has at the time of the call, whatever format was
\* extracted before.  Assigning DefaultDateFormat changes no formatter, and
\* a Format call renders {date} with the formatter's own date format.
C24_DateFormatAfterSetMessageFormat ==
    [][impl = "DefaultFormatter" =>
          /\ last'.op = "SetMessageFormat" =>
                fm'.dateFormat =
                    IF InlineStarts(last'.format) # {}
                    THEN last'.format[FirstInline(last'.format) + 1]
                    ELSE DefaultDateFormat
          /\ last'.op = "SetDefaultDateFormat" => fm' = fm
          /\ (last'.op = "Format" /\ \E i \in DOMAIN fm.messageFormat :
                                         fm.messageFormat[i] = "{date}") =>
                \E i \in DOMAIN last'.ret :
                    last'.ret[i] = TimeFormat(fm.dateFormat)
      ]_vars

C24_Witness ==
    /\ impl = "DefaultFormatter" /\ last.op = "SetMessageFormat"
    /\ InlineStarts(last.format) = {}
    /\ DefaultDateFormat = "Jan 2" /\ fm.dateFormat = "Jan 2"

\* The sinks of the registrations whose threshold is ranked at or below
\* level, one entry per registration, in registration order.
RECURSIVE Eligible(_, _)
Eligible(registrations, level) ==
    IF registrations = <<>> THEN <<>>
    ELSE (IF Rank(Head(registrations)[2]) <= Rank(level)
          THEN <<Head(registrations)[1]>> ELSE <<>>)
         \o Eligible(Tail(registrations), level)

\* C25: after any sequence of appends with canonical thresholds, a Log call
\* at a canonical level L on a writable logger performs exactly one write
\* for each registration whose threshold is ranked at or below L, in
\* registration order, so a sink registered k times gets k lines; Get(L) of
\* a container returns the same list.
C25_OneWritePerRegistration ==
    /\ (impl = "DefaultLogger" /\ last.op = "Log" /\ Writable(l)) =>
          WriteSinks(last.trace) = Eligible(regs, last.level)
    /\ (impl = "DefaultContainer" /\ last.op = "Get") =>
          WriteSinks(last.trace) = Eligible(regs, last.level)

C25_Witness ==
    /\ impl = "DefaultLogger" /\ last.op = "Log" /\ Writable(l)
    /\ Len(regs) = 2 /\ regs[1][1] = regs[2][1]
    /\ WriteSinks(last.trace) = <<regs[1][1], regs[1][1]>>

\* C26: Format is deterministic: two calls in a row on the same formatter
\* (same template, date format and suppliers) with the same name, level and
\* arguments at the same clock value return the same string, also when the
\* arguments hold placeholder tokens.
C26_FormatDeterministic ==
    [][(/\ impl \in FormatterImpls
        /\ last.op = "Format" /\ last'.op = "Format"
        /\ fm' = fm
        /\ last'.name = last.name /\ last'.level = last.level
        /\ last'.v = last.v) =>
          last'.ret = last.ret
      ]_vars

----------------------------------------------------------------------------
(* SpecCycle: loggers whose sinks are LoggerWriter wrappers of loggers     *)
(* (src/container.go).  A Log call is followed sink by sink, because it    *)
(* may call Log again from inside a sink's Write.                          *)

MaxCycleAppend == 2

CycleLoggers == {"X", "Y"}
CycleThresholds == {DebugLevel, WarningLevel}
CycleLevels == {DebugLevel, WarningLevel}

\* NewLoggerWriter(logger, level)
NewLoggerWriter(logger, level) ==
    [type |-> "LoggerWriter", logger |-> logger, level |-> level]

\* A writer that is no LoggerWriter: a buffer.
Buffer == [type |-> "bytes.Buffer"]

CycleWriters ==
    {Buffer}
    \cup {NewLoggerWriter(x, lev) : x \in CycleLoggers, lev \in CycleLevels}

\* newLogger(writer): log.New makes a log.Logger of its own, with its own
\* mutex, on every call; id tells the instances apart.
newLogger(writer, id) == [type |-> "log.Logger", id |-> id, out |-> writer]

IsLoggerWriter(writer) == writer.type = "LoggerWriter"

\* A Log call in progress: the logger, the level, and the place in the
\* bucket of the log.Logger it prints to next.
Frame(x, level) == [logger |-> x, level |-> level, i |-> 1]

\* for _, logger := range l.Loggers.FindByLevel(level)
Bucket(f) == FindByLevel(l[f.logger].Loggers, f.level)

\* log.Logger.Print holds the mutex of the log.Logger while its writer's
\* Write runs: these are the log.Loggers whose Write has called Log.
Held == {Bucket(calls[k])[calls[k].i] : k \in 1..(Len(calls) - 1)}

Top == calls[Len(calls)]

\* The call on top of the stack waits for a mutex that a call beneath it
\* holds: the mutex is not reentrant and is released only when that call
\* returns.
Blocked ==
    /\ calls # <<>>
    /\ Top.i <= Len(Bucket(Top))
    /\ Bucket(Top)[Top.i] \in Held

CycleCommit(loggers, registrations, stack, lst) ==
    /\ l' = loggers
    /\ regs' = registrations
    /\ calls' = stack
    /\ last' = lst
    /\ UNCHANGED <<impl, m, FatalOn, PanicOn, PanicOnFileErrors, Aliases,
                   nfiles, closeCount, fm, globalInstance, globalAppended,
                   globalLoggers, ninst, DefaultDateFormat>>

\* x.AppendWriter(writer, level), between Log calls.
Cycle_AppendWriter(x, writer, level) ==
    /\ calls = <<>>
    /\ LET w == DoAppendWriter([World EXCEPT !.l = l[x]],
                               newLogger(writer, Len(regs) + 1), level)
       IN CycleCommit([l EXCEPT ![x] = w.l], w.regs, calls,
                      [op |-> "AppendWriter", level |-> level, out |-> w.out,
                       trace |-> <<>>])

\* x.Log(level, v) is called from outside: if l.Writable() ...
Cycle_Log(x, level) ==
    /\ calls = <<>>
    /\ CycleCommit(l, regs,
                   IF Writable(l[x]) THEN <<Frame(x, level)>> ELSE <<>>,
                   [op |-> "Log", level |-> level,
                    out |-> IF Writable(l[x]) THEN "running" ELSE "return",
                    trace |-> <<>>])

\* LoggerWriter.Write: w.logger.Log(w.level, string(p)), which goes on to
\* print when the wrapped logger is writable.
Write(writer) ==
    IF Writable(l[writer.logger])
    THEN <<Frame(writer.logger, writer.level)>> ELSE <<>>

\* The Log call on top of the stack returns; the Write that called it
\* returns, Print releases the mutex, and the caller moves to its next sink.
Cycle_Return ==
    /\ calls # <<>>
    /\ Top.i > Len(Bucket(Top))
    /\ LET rest == SubSeq(calls, 1, Len(calls) - 1) IN
       CycleCommit(l, regs,
                   IF rest = <<>> THEN <<>>
                   ELSE [rest EXCEPT ![Len(rest)].i = @ + 1],
                   [last EXCEPT !.out = IF rest = <<>> THEN "return" ELSE @])

\* logger.Print(message) for the next log.Logger of the bucket: the mutex
\* is taken, and the writer is written to.
Cycle_Print ==
    /\ calls # <<>>
    /\ Top.i <= Len(Bucket(Top))
    /\ ~Blocked
    /\ LET sink == Bucket(Top)[Top.i] IN
       IF IsLoggerWriter(sink.out) /\ Write(sink.out) # <<>>
       THEN CycleCommit(l, regs, calls \o Write(sink.out), last)
       ELSE CycleCommit(l, regs, [calls EXCEPT ![Len(calls)].i = @ + 1],
                        [last EXCEPT !.trace =
                            IF IsLoggerWriter(sink.out) THEN @
                            ELSE Append(@, Ev("write", sink.out, <<>>))])

InitCycle ==
    /\ impl = "DefaultLogger"
    /\ l = [x \in CycleLoggers |-> NewLogger(<<x>>)]
    /\ m = Nil
    /\ FatalOn = 0
    /\ PanicOn = 0
    /\ PanicOnFileErrors = TRUE
    /\ Aliases = DefaultAliases
    /\ InitEnv
    /\ globalInstance = 0
    /\ globalAppended = FALSE
    /\ globalLoggers = Nil
    /\ ninst = 0
    /\ calls = <<>>
    /\ fm = Nil
    /\ DefaultDateFormat = InitialDateFormat

NextCycle ==
    \/ \E x \in CycleLoggers, w \in CycleWriters, t \in CycleThresholds :
          /\ Len(regs) < MaxCycleAppend
          /\ Cycle_AppendWriter(x, w, t)
    \/ \E x \in CycleLoggers, lev \in CycleLevels : Cycle_Log(x, lev)
    \/ Cycle_Print
    \/ Cycle_Return

SpecCycle == InitCycle /\ [][NextCycle]_vars

\* C27: every Log call terminates, whatever sinks are registered, also when
\* a LoggerWriter that wraps a logger is registered on that logger or two
\* loggers are each other's sinks: a call in progress is never left waiting
\* for something that only its own return can bring about.
C27_LogTerminates == ~Blocked

\* How many entries of a sequence equal x.
RECURSIVE Count(_, _)
Count(seq, x) ==
    IF seq = <<>> THEN 0
    ELSE (IF Head(seq) = x THEN 1 ELSE 0) + Count(Tail(seq), x)

\* C28: a sink registered through a global append stays registered on the
\* global logger until the next global Close: a global append that acts on
\* the global logger already in place removes no registration made by an
\* earlier global append.  Only the first registration of an instance can
\* be the default one, so every later one was made by a global append.
C28_GlobalAppendKeepsSinks ==
    [][(/\ impl = "global"
        /\ last'.op \in AppendOps
        /\ globalInstance # 0 /\ last'.inst = globalInstance) =>
          \A k \in 2..Len(regs) :
             Count(regs', regs[k]) >= Count(SubSeq(regs, 2, Len(regs)), regs[k])
      ]_vars

Range(seq) == {seq[i] : i \in DOMAIN seq}

\* The file handles an operation has registered as sinks.
RegisteredFiles(trace) ==
    {trace[i].sink : i \in {j \in DOMAIN trace :
                               trace[j].e = "register"
                               /\ trace[j].sink \in FileHandles}}

\* C29: a file the DefaultLogger opened and registered in an Append or
\* MultiAppend (also one that panicked on a later file) is owned by the
\* logger from then on; an owned file stays open and owned through every
\* operation but Close, ClearAppended included; the first Close closes every
\* owned file, and no file is ever closed twice.
C29_FilesClosedOnce ==
    [][impl = "DefaultLogger" =>
          /\ \A h \in RegisteredFiles(last'.trace) :
                h \in Range(l'.pointers) /\ closeCount'[h] = 0
          /\ last'.op # "Close" =>
                \A h \in Range(l.pointers) :
                    /\ h \in Range(l'.pointers)
                    /\ closeCount[h] = 0 /\ closeCount'[h] = 0
          /\ last'.op = "Close" =>
                /\ \A h \in Range(l.pointers) : closeCount'[h] = 1
                /\ l'.pointers = <<>>
          /\ \A h \in FileHandles : closeCount'[h] <= 1
      ]_vars

C29_Witness ==
    /\ impl = "DefaultLogger" /\ last.op = "Close"
    /\ regs = <<>>
    /\ nfiles = 2
    /\ closeCount[<<"file", 1>>] = 1 /\ closeCount[<<"file", 2>>] = 1

\* C30: a Log call on a writable DefaultLogger at a level that is not one
\* of the eight canonical levels (0, or several level bits together)
\* raises no invalid-level fault and writes to no sink, whatever is
\* registered; the FatalOn and PanicOn masks are still tested against the
\* value, so the call exits or panics without having delivered anything.
C30_NonCanonicalLogLevel ==
    (/\ impl = "DefaultLogger" /\ last.op = "Log"
     /\ last.level \notin CanonicalLevels /\ Writable(l)) =>
        /\ WriteSinks(last.trace) = <<>>
        /\ \A i \in DOMAIN last.trace :
              last.trace[i] # Ev("panic", NoSink, <<"Invalid level.">>)
        /\ last.out = IF BitAnd(FatalOn, last.level) > 0 THEN "exit"
                      ELSE IF BitAnd(PanicOn, last.level) > 0 THEN "panic"
                      ELSE "return"

C30_Witness ==
    /\ impl = "DefaultLogger" /\ last.op = "Log"
    /\ last.level = CriticalLevel + AlertLevel /\ Writable(l)
    /\ Len(regs) = 2 /\ regs[1][2] = DebugLevel
    /\ last.out = "exit" /\ last.trace = <<Ev("exit", NoSink, <<>>)>>

====
